---- MODULE Spec2Model ----
(***************************************************************************)
(* A model of mixcloud-uploader: the tracklist formats (cue sheet, tabular *)
(* edit format), the tracklist transforms (artist inference, trimming),    *)
(* the local OAuth capture flow, the run orchestration and the upload      *)
(* request.  Python strings are sequences of one-character strings.        *)
(***************************************************************************)
EXTENDS Integers, Sequences, FiniteSets, TLC

VARIABLES
    \* tabular edit format (tracklist.py)
    tab_pc, tab_tracks, tab_lines, tab_parsed, tab_error,
    \* artist inference (transform.py complete_entry, tracklist.py complete)
    ce_entry, ce_fn_out, ce_method_out,
    \* trim transform (transform.py trim_tracklist)
    tr_tracklist, tr_duration, tr_out,
    \* cue-sheet parser (tracklist.py parse_cuesheet)
    cue_pc, cue_lines, cue_i, cue_entry, cue_out,
    \* local OAuth capture (mixcloud.py authenticate_via_browser)
    oa_pc,              \* where the calling thread is
    oauth_code,         \* the nonlocal oauth_code: <<>> for None, else <<code>>
    shutdown_request,   \* the server's shutdown flag
    is_shut_down,       \* the server's event: serve_forever has returned
    browser,            \* the launch_browser thread
    sleepers,           \* shutdown_soon threads in time.sleep(1)
    waiters,            \* shutdown_soon threads inside server.shutdown()
    handled,            \* requests handled so far
    last_request,       \* the last request handled, <<>> before the first
    last_status,        \* the status it passed to send_response
    last_sent,          \* the status line the client received for it, 0 for none
    code_log,           \* every value written to oauth_code, in order
    code_sent,          \* for each of them, the status the client received, 0 for none
    stops_scheduled,    \* shutdown_soon threads started so far
    token_requests,     \* the codes of the token requests sent
    token_response,     \* the body of the token response, <<>> before it
    oa_result,          \* <<>> while running, else <<the return value or error>>
    \* a run (__init__.py run) and the upload request (mixcloud.py Mixcloud.upload)
    run_pc,             \* the step run is at
    run_opts,           \* the Options: noninteractive, trim_duration, tags, description
    output_exists,      \* the transcoded file is there
    tracklist_sized,    \* the Tracklist class takes its truth value from its entries
    run_tracks,         \* the local tracks: the entries of the tracklist
    run_steps,          \* the steps carried out, in order
    run_response,       \* the answer at the confirmation prompt, <<>> before it
    run_uploads         \* the calls of Mixcloud.upload: tracks, tags and request data

tabVars == <<tab_pc, tab_tracks, tab_lines, tab_parsed, tab_error>>
ceVars == <<ce_entry, ce_fn_out, ce_method_out>>
trVars == <<tr_tracklist, tr_duration, tr_out>>
cueVars == <<cue_pc, cue_lines, cue_i, cue_entry, cue_out>>
oaVars == <<oa_pc, oauth_code, shutdown_request, is_shut_down, browser, sleepers, waiters,
            handled, last_request, last_status, last_sent, code_log, code_sent,
            stops_scheduled, token_requests, token_response, oa_result>>
runVars == <<run_pc, run_opts, output_exists, tracklist_sized, run_tracks, run_steps,
             run_response, run_uploads>>
vars == <<tabVars, ceVars, trVars, cueVars, oaVars, runVars>>

(***************************************************************************)
(* Python str operations                                                   *)
(***************************************************************************)
\* Characters str.strip() removes.
Whitespace == {" ", "\t", "\n"}

Digits == <<"0", "1", "2", "3", "4", "5", "6", "7", "8", "9">>

\* s[i:] (1-based i)
Drop(s, i) == SubSeq(s, i, Len(s))

\* pat occurs in s at position i
MatchAt(s, pat, i) ==
    /\ i >= 1
    /\ i + Len(pat) - 1 <= Len(s)
    /\ SubSeq(s, i, i + Len(pat) - 1) = pat

\* str.find: the least position of pat in s, 0 when there is none (pat non-empty)
Find(s, pat) ==
    LET hits == {i \in 1..Len(s) : MatchAt(s, pat, i)}
    IN  IF hits = {} THEN 0 ELSE CHOOSE i \in hits : \A j \in hits : i <= j

Contains(s, pat) == Find(s, pat) # 0

\* str.replace(old, new): non-overlapping occurrences, left to right
RECURSIVE Replace(_, _, _)
Replace(s, old, new) ==
    LET i == Find(s, old)
    IN  IF i = 0 THEN s
        ELSE SubSeq(s, 1, i - 1) \o new \o Replace(Drop(s, i + Len(old)), old, new)

\* str.split(sep): non-overlapping occurrences, left to right; always >= 1 field
RECURSIVE Split(_, _)
Split(s, sep) ==
    LET i == Find(s, sep)
    IN  IF i = 0 THEN <<s>>
        ELSE <<SubSeq(s, 1, i - 1)>> \o Split(Drop(s, i + Len(sep)), sep)

\* str.split(sep, maxsplit=1)
SplitOnce(s, sep) ==
    LET i == Find(s, sep)
    IN  IF i = 0 THEN <<s>>
        ELSE <<SubSeq(s, 1, i - 1), Drop(s, i + Len(sep))>>

RECURSIVE LStrip(_)
LStrip(s) ==
    IF s # <<>> /\ Head(s) \in Whitespace THEN LStrip(Tail(s)) ELSE s

RECURSIVE RStrip(_)
RStrip(s) ==
    IF s # <<>> /\ s[Len(s)] \in Whitespace THEN RStrip(SubSeq(s, 1, Len(s) - 1)) ELSE s

\* str.strip()
Strip(s) == RStrip(LStrip(s))

\* sep.join(parts)
RECURSIVE Join(_, _)
Join(parts, sep) ==
    IF parts = <<>> THEN <<>>
    ELSE IF Len(parts) = 1 THEN parts[1]
    ELSE parts[1] \o sep \o Join(Tail(parts), sep)

\* str(n) for a non-negative int
RECURSIVE Str(_)
Str(n) ==
    IF n < 10 THEN <<Digits[n + 1]>> ELSE Str(n \div 10) \o <<Digits[(n % 10) + 1]>>

DigitVal(c) == CHOOSE d \in 0..9 : Digits[d + 1] = c

IsDigit(c) == \E d \in 1..10 : Digits[d] = c

\* int(s) succeeds: surrounding whitespace is ignored, then decimal digits
IntOk(s) ==
    LET t == Strip(s)
    IN  t # <<>> /\ \A i \in 1..Len(t) : IsDigit(t[i])

RECURSIVE DigitsVal(_)
DigitsVal(t) ==
    IF t = <<>> THEN 0 ELSE 10 * DigitsVal(SubSeq(t, 1, Len(t) - 1)) + DigitVal(t[Len(t)])

\* int(s), when IntOk(s)
ParseInt(s) == DigitsVal(Strip(s))

(***************************************************************************)
(* Tracklist entries                                                       *)
(***************************************************************************)
TracklistEntry(a, t, s) == [artist |-> a, title |-> t, start_seconds |-> s]

(***************************************************************************)
(* Tabular edit format                                                     *)
(***************************************************************************)
DEFAULT_SEPARATOR == <<" ", ":", ":", " ">>

sanitize(s, separator) == Replace(s, separator, <<" ">>)

\* One line of format_tabular.
format_line(track, separator) ==
    Join(<<sanitize(track.artist, separator), sanitize(track.title, separator),
           Str(track.start_seconds)>>, separator)

format_tabular(tracks, separator) ==
    [i \in 1..Len(tracks) |-> format_line(tracks[i], separator)]

\* The fields parse_tabular sees in a line.
parse_split(line, separator) == Split(Strip(line), separator)

\* parse_tabular raises ValueError on a line of >= 3 fields whose third is no integer.
parse_raises(lines, separator) ==
    \E i \in 1..Len(lines) :
        LET split == parse_split(lines[i], separator)
        IN  Len(split) >= 3 /\ ~IntOk(split[3])

RECURSIVE parse_tabular(_, _)
parse_tabular(lines, separator) ==
    IF lines = <<>> THEN <<>>
    ELSE LET split == parse_split(Head(lines), separator)
             rest == parse_tabular(Tail(lines), separator)
         IN  IF Len(split) >= 3
             THEN <<TracklistEntry(split[1], split[2],
                                   IF IntOk(split[3]) THEN ParseInt(split[3]) ELSE 0)>> \o rest
             ELSE rest

(***************************************************************************)
(* Artist inference                                                        *)
(***************************************************************************)
\* The patterns of the inference, in the order the loop tries them; a pattern
\* is the set of the literal texts it matches: [-–], : and by.
EN_DASH == "EN_DASH"
CompletePatterns == << {<<"-">>, <<EN_DASH>>}, {<<":">>}, {<<"b", "y">>} >>

\* The leftmost match of a pattern in s: its position, 0 when there is none.
Search(pattern, s) ==
    LET hits == {i \in 1..Len(s) : \E lit \in pattern : MatchAt(s, lit, i)}
    IN  IF hits = {} THEN 0 ELSE CHOOSE i \in hits : \A j \in hits : i <= j

MatchLen(pattern, s, i) == Len(CHOOSE lit \in pattern : MatchAt(s, lit, i))

\* re.split(pattern, s, maxsplit=1)
ReSplitOnce(pattern, s) ==
    LET i == Search(pattern, s)
    IN  IF i = 0 THEN <<s>>
        ELSE <<SubSeq(s, 1, i - 1), Drop(s, i + MatchLen(pattern, s, i))>>

\* The loop over the patterns, from pattern k on.
RECURSIVE GuessFrom(_, _)
GuessFrom(entry, k) ==
    IF k > Len(CompletePatterns) THEN entry
    ELSE LET split == ReSplitOnce(CompletePatterns[k], entry.title)
         IN  IF Len(split) >= 2
             THEN [entry EXCEPT !.artist = Strip(split[1]), !.title = Strip(split[2])]
             ELSE GuessFrom(entry, k + 1)

\* An inference that splits at the first delimiter of any kind, whatever its priority.
complete_entry_any_delimiter(entry) ==
    LET split == ReSplitOnce(CompletePatterns[1] \cup CompletePatterns[2] \cup CompletePatterns[3],
                             entry.title)
    IN  IF entry.artist = <<>> /\ Len(split) >= 2
        THEN [entry EXCEPT !.artist = Strip(split[1]), !.title = Strip(split[2])]
        ELSE entry

\* transform.complete_entry
complete_entry(entry) ==
    IF entry.artist = <<>> THEN GuessFrom(entry, 1) ELSE entry

\* TracklistEntry.complete: the entry after the call
complete(entry) ==
    IF entry.artist = <<>> THEN GuessFrom(entry, 1) ELSE entry

complete_tracklist(entries) == [i \in 1..Len(entries) |-> complete_entry(entries[i])]

(***************************************************************************)
(* Trim transform                                                          *)
(***************************************************************************)
\* A cutoff that keeps the entry that starts at the cutoff.
Keeps_inclusive(entry, duration) == entry.start_seconds <= duration

\* entry.start_seconds < duration
Keeps(entry, duration) == entry.start_seconds < duration

\* transform.trim_tracklist: the entries of the new tracklist
RECURSIVE trim_tracklist(_, _)
trim_tracklist(entries, duration) ==
    IF entries = <<>> THEN <<>>
    ELSE (IF Keeps(Head(entries), duration) THEN <<Head(entries)>> ELSE <<>>)
         \o trim_tracklist(Tail(entries), duration)

(***************************************************************************)
(* Cue-sheet parser                                                        *)
(***************************************************************************)
KW_TRACK == <<"T", "R", "A", "C", "K">>
KW_TITLE == <<"T", "I", "T", "L", "E">>
KW_PERFORMER == <<"P", "E", "R", "F", "O", "R", "M", "E", "R">>
KW_INDEX == <<"I", "N", "D", "E", "X">>

RemovePrefix(s, p) == IF MatchAt(s, p, 1) THEN Drop(s, Len(p) + 1) ELSE s

RemoveSuffix(s, p) ==
    IF MatchAt(s, p, Len(s) - Len(p) + 1) THEN SubSeq(s, 1, Len(s) - Len(p)) ELSE s

parse_quoted(raw) == RemoveSuffix(RemovePrefix(raw, <<"\"">>), <<"\"">>)

\* parse_time raises ValueError: fewer than two segments, or one that is no integer.
parse_time_raises(raw) ==
    LET parts == Split(raw, <<":">>)
    IN  Len(parts) < 2 \/ ~IntOk(parts[1]) \/ ~IntOk(parts[2])

\* A parse that takes the first segment for the seconds and the second for the minutes.
parse_time_swapped(raw) ==
    LET parts == Split(raw, <<":">>)
    IN  ParseInt(parts[1]) + 60 * ParseInt(parts[2])

parse_time(raw) ==
    LET parts == Split(raw, <<":">>)
    IN  60 * ParseInt(parts[1]) + ParseInt(parts[2])

\* line.strip().split(' ', maxsplit=1)
cue_split(line) == SplitOnce(Strip(line), <<" ">>)

\* split[1].split(' ')[-1]
last_field(arg) == LET f == Split(arg, <<" ">>) IN f[Len(f)]

\* The line raises inside a track: split[1] of a one-element list (IndexError), or
\* a malformed time (ValueError).
cue_line_raises(line) ==
    LET split == cue_split(line)
    IN  /\ split[1] \in {KW_TITLE, KW_PERFORMER, KW_INDEX}
        /\ \/ Len(split) < 2
           \/ split[1] = KW_INDEX /\ parse_time_raises(last_field(split[2]))

\* The entry under construction after a TITLE, PERFORMER, INDEX or other line.
cue_update(entry, line) ==
    LET split == cue_split(line)
    IN  IF split[1] = KW_TITLE THEN [entry EXCEPT !.title = parse_quoted(split[2])]
        ELSE IF split[1] = KW_PERFORMER THEN [entry EXCEPT !.artist = parse_quoted(split[2])]
        ELSE IF split[1] = KW_INDEX
             THEN [entry EXCEPT !.start_seconds = parse_time(last_field(split[2]))]
        ELSE entry

(***************************************************************************)
(* Local OAuth capture                                                     *)
(***************************************************************************)
callback_endpoint == "/callback"

\* urllib.parse.parse_qs on the pairs of a query string: the values of a key, blank
\* values dropped (keep_blank_values is off), in order.
RECURSIVE qs_values(_, _)
qs_values(query, key) ==
    IF query = <<>> THEN <<>>
    ELSE (IF Head(query).key = key /\ Head(query).value # ""
          THEN <<Head(query).value>> ELSE <<>>) \o qs_values(Tail(query), key)

\* 'code' in parse_qs(url.query)
has_code(req) == qs_values(req.query, "code") # <<>>

\* do_GET: the status it passes to send_response
do_GET_status(req) == IF req.path = callback_endpoint THEN 200 ELSE 404

\* do_GET calls send_response only: it never calls end_headers (nor flush_headers).
do_GET_ends_headers == FALSE

\* The status line that reaches the client.  send_response appends the status line
\* and the Server and Date headers to the handler's header buffer; end_headers
\* writes the buffer to the connection.  Without it the connection is closed with
\* nothing written: the client gets an empty reply (0).
response_sent(status, ends_headers) == IF ends_headers THEN status ELSE 0

\* do_GET: it records a code and starts a shutdown_soon thread
do_GET_records(req) == req.path = callback_endpoint /\ has_code(req)

\* response.json() of a token response body; ok is false when it raises
json(body) ==
    CASE body = "{\"access_token\": \"T1\"}" -> [ok |-> TRUE, keys |-> {"access_token"}, access_token |-> "T1"]
      [] body = "{\"access_token\": \"\", \"scope\": \"x\"}" -> [ok |-> TRUE, keys |-> {"access_token", "scope"}, access_token |-> ""]
      [] body = "{\"error\": \"denied\"}" -> [ok |-> TRUE, keys |-> {"error"}, access_token |-> ""]
      [] body = "{}" -> [ok |-> TRUE, keys |-> {}, access_token |-> ""]
      [] OTHER -> [ok |-> FALSE, keys |-> {}, access_token |-> ""]

\* An end that returns whatever the parsed response holds under access_token.
token_outcome_unchecked(body) ==
    IF ~json(body).ok
    THEN [kind |-> "JSONDecodeError", value |-> ""]
    ELSE [kind |-> "return", value |-> json(body).access_token]

\* The end of authenticate_via_browser, given the body of the token response.
token_outcome(body) ==
    LET response_fields == json(body)
    IN  IF ~response_fields.ok
        THEN [kind |-> "JSONDecodeError", value |-> ""]
        ELSE IF "access_token" \in response_fields.keys
        THEN [kind |-> "return", value |-> response_fields.access_token]
        ELSE [kind |-> "RuntimeError", value |-> body]

(***************************************************************************)
(* The run and the upload request                                          *)
(***************************************************************************)
LowerChar(c) == IF c = "Y" THEN "y" ELSE IF c = "N" THEN "n" ELSE IF c = "E" THEN "e"
                ELSE IF c = "S" THEN "s" ELSE c

\* str.lower()
Lower(s) == [i \in 1..Len(s) |-> LowerChar(s[i])]

\* utils.confirm: TRUE when it returns, FALSE when it calls sys.exit(1)
confirm(input) ==
    LET response == Lower(Strip(input))
    IN  ~(response # <<>> /\ response # <<"y">>)

\* The truth value of a Tracklist object: that of its entries when the class defines
\* one, that of any object otherwise.
Truthy(entries, sized) == IF sized THEN entries # <<>> ELSE TRUE

FieldKey(field, index, attr) == [field |-> field, index |-> index, attr |-> attr]

\* The (key, value) pairs of Mixcloud.upload's data before the "if v" filter; truthy
\* is the truth value of v, text its form in the request.  description is <<>> for None.
upload_pairs(name, description, tags, entries) ==
    {[key |-> FieldKey("name", 0, ""), text |-> name, truthy |-> name # <<>>],
     [key |-> FieldKey("description", 0, ""), text |-> IF description = <<>> THEN <<>> ELSE description[1],
      truthy |-> description # <<>> /\ description[1] # <<>>]}
    \cup {[key |-> FieldKey("tags", i - 1, "tag"), text |-> tags[i], truthy |-> tags[i] # <<>>]
          : i \in 1..Len(tags)}
    \cup {[key |-> FieldKey("sections", i - 1, "artist"), text |-> entries[i].artist,
           truthy |-> entries[i].artist # <<>>] : i \in 1..Len(entries)}
    \cup {[key |-> FieldKey("sections", i - 1, "song"), text |-> entries[i].title,
           truthy |-> entries[i].title # <<>>] : i \in 1..Len(entries)}
    \cup {[key |-> FieldKey("sections", i - 1, "start_time"), text |-> Str(entries[i].start_seconds),
           truthy |-> entries[i].start_seconds # 0] : i \in 1..Len(entries)}

\* data={k: v for k, v in [...] if v}
upload_data(name, description, tags, entries) ==
    {[key |-> p.key, text |-> p.text] : p \in {q \in upload_pairs(name, description, tags, entries) : q.truthy}}

(***************************************************************************)
(* Components that take no part in a specification stay idle.              *)
(***************************************************************************)
TabIdle ==
    /\ tab_pc = "idle"
    /\ tab_tracks = <<>>
    /\ tab_lines = <<>>
    /\ tab_parsed = <<>>
    /\ tab_error = FALSE

CeIdle ==
    /\ ce_entry = TracklistEntry(<<>>, <<>>, 0)
    /\ ce_fn_out = <<>>
    /\ ce_method_out = <<>>

TrIdle ==
    /\ tr_tracklist = <<>>
    /\ tr_duration = 0
    /\ tr_out = <<>>

OaIdle ==
    /\ oa_pc = "idle"
    /\ oauth_code = <<>>
    /\ shutdown_request = FALSE
    /\ is_shut_down = FALSE
    /\ browser = "none"
    /\ sleepers = 0
    /\ waiters = 0
    /\ handled = 0
    /\ last_request = <<>>
    /\ last_status = 0
    /\ last_sent = 0
    /\ code_log = <<>>
    /\ code_sent = <<>>
    /\ stops_scheduled = 0
    /\ token_requests = <<>>
    /\ token_response = <<>>
    /\ oa_result = <<>>

RunIdle ==
    /\ run_pc = "idle"
    /\ run_opts = [noninteractive |-> TRUE, trim_duration |-> <<>>, tags |-> <<>>,
                   description |-> <<>>]
    /\ output_exists = FALSE
    /\ tracklist_sized = FALSE
    /\ run_tracks = <<>>
    /\ run_steps = <<>>
    /\ run_response = <<>>
    /\ run_uploads = <<>>

CueIdle ==
    /\ cue_pc = "idle"
    /\ cue_lines = <<>>
    /\ cue_i = 0
    /\ cue_entry = <<>>
    /\ cue_out = <<>>

(***************************************************************************)
(* Specification of the tabular edit format                                *)
(***************************************************************************)
\* Bounds of the tabular inputs.
MaxTracks == 1
MaxStrLen == 1
Alphabet == {" ", ":", "a"}

StrsUpTo(n) == UNION {[1..k -> Alphabet] : k \in 0..n}

\* Fields that hold the separator, next to all short strings.
SepStrs == {DEFAULT_SEPARATOR, <<"a">> \o DEFAULT_SEPARATOR \o <<"a">>,
            DEFAULT_SEPARATOR \o <<":", ":", " ">>}

Strs == StrsUpTo(MaxStrLen) \cup SepStrs

StartSeconds == {0, 125}

TabEntries == {TracklistEntry(a, t, s) : a \in Strs, t \in Strs, s \in StartSeconds}

TabTracklists == UNION {[1..n -> TabEntries] : n \in 0..MaxTracks}

TabInit ==
    /\ tab_pc = "format"
    /\ tab_tracks \in TabTracklists
    /\ tab_lines = <<>>
    /\ tab_parsed = <<>>
    /\ tab_error = FALSE
    /\ CeIdle /\ TrIdle /\ CueIdle /\ OaIdle /\ RunIdle

\* write_tabular's use of format_tabular
FormatTabular ==
    /\ tab_pc = "format"
    /\ tab_lines' = format_tabular(tab_tracks, DEFAULT_SEPARATOR)
    /\ tab_pc' = "parse"
    /\ UNCHANGED <<tab_tracks, tab_parsed, tab_error, ceVars, trVars, cueVars, oaVars, runVars>>

\* read_tabular's use of parse_tabular
ParseTabular ==
    /\ tab_pc = "parse"
    /\ IF parse_raises(tab_lines, DEFAULT_SEPARATOR)
       THEN tab_error' = TRUE /\ UNCHANGED tab_parsed
       ELSE tab_parsed' = parse_tabular(tab_lines, DEFAULT_SEPARATOR) /\ UNCHANGED tab_error
    /\ tab_pc' = "done"
    /\ UNCHANGED <<tab_tracks, tab_lines, ceVars, trVars, cueVars, oaVars, runVars>>

TabNext == FormatTabular \/ ParseTabular

SpecTabular == TabInit /\ [][TabNext]_vars

NoSeparator(tracks) ==
    \A i \in 1..Len(tracks) :
        /\ ~Contains(tracks[i].artist, DEFAULT_SEPARATOR)
        /\ ~Contains(tracks[i].title, DEFAULT_SEPARATOR)

\* C1: for every tracklist whose artist and title fields hold no separator
\* (empty fields and fields with leading or trailing spaces included), parsing
\* the lines format_tabular produces gives back exactly the tracklist.
C1_RoundTrip ==
    (tab_pc = "done" /\ NoSeparator(tab_tracks)) =>
        (~tab_error /\ tab_parsed = tab_tracks)

\* str.count: the occurrences of the separator in a line, left to right, none
\* overlapping another.
CountSeparator(line) == Len(Split(line, DEFAULT_SEPARATOR)) - 1

\* C13: for every entry, whatever its artist and title contain, the line format_tabular
\* produces holds the separator exactly twice, parse_tabular splits it into exactly
\* three fields and returns an entry with the same start_seconds.
C13_UnambiguousLines ==
    /\ tab_pc \in {"parse", "done"} =>
        /\ Len(tab_lines) = Len(tab_tracks)
        /\ \A i \in 1..Len(tab_lines) : CountSeparator(tab_lines[i]) = 2
    /\ tab_pc = "done" =>
        /\ \A i \in 1..Len(tab_lines) :
            Len(parse_split(tab_lines[i], DEFAULT_SEPARATOR)) = 3
        /\ ~tab_error
        /\ Len(tab_parsed) = Len(tab_tracks)
        /\ \A i \in 1..Len(tab_parsed) :
            tab_parsed[i].start_seconds = tab_tracks[i].start_seconds

(***************************************************************************)
(* Specification of the artist inference                                   *)
(***************************************************************************)
MaxTitleLen == 3
TitleAlphabet == {"a", " ", "-", EN_DASH, ":", "b", "y"}
Titles == UNION {[1..k -> TitleAlphabet] : k \in 0..MaxTitleLen}
Artists == {<<>>, <<"a">>, <<" ">>}

CeInit ==
    /\ ce_entry \in {TracklistEntry(a, t, s) : a \in Artists, t \in Titles, s \in StartSeconds}
    /\ ce_fn_out = <<>>
    /\ ce_method_out = <<>>
    /\ TabIdle /\ TrIdle /\ CueIdle /\ OaIdle /\ RunIdle

\* a call of transform.complete_entry
CompleteEntry ==
    /\ ce_fn_out = <<>>
    /\ ce_fn_out' = <<complete_entry(ce_entry)>>
    /\ UNCHANGED <<ce_entry, ce_method_out, tabVars, trVars, cueVars, oaVars, runVars>>

\* a call of TracklistEntry.complete on a copy of the entry
Complete ==
    /\ ce_method_out = <<>>
    /\ ce_method_out' = <<complete(ce_entry)>>
    /\ UNCHANGED <<ce_entry, ce_fn_out, tabVars, trVars, cueVars, oaVars, runVars>>

CeNext == CompleteEntry \/ Complete

SpecComplete == CeInit /\ [][CeNext]_vars

\* The delimiters by priority, as the claim names them.
DelimiterClasses == << {<<"-">>, <<EN_DASH>>}, {<<":">>}, {<<"b", "y">>} >>

HasDelimiter(title, k) == \E d \in DelimiterClasses[k] : Contains(title, d)

\* out is the entry split at position i by delimiter d.
SplitAt(entry, out, i, d) ==
    /\ MatchAt(entry.title, d, i)
    /\ out.artist = Strip(SubSeq(entry.title, 1, i - 1))
    /\ out.title = Strip(SubSeq(entry.title, i + Len(d), Len(entry.title)))

InferenceHolds(entry, out) ==
    /\ out.start_seconds = entry.start_seconds
    /\ entry.artist # <<>> => out = entry
    /\ (\A k \in 1..3 : ~HasDelimiter(entry.title, k)) => out = entry
    /\ \A k \in 1..3 :
        (/\ entry.artist = <<>>
         /\ HasDelimiter(entry.title, k)
         /\ \A h \in 1..(k - 1) : ~HasDelimiter(entry.title, h))
        => \E i \in 1..Len(entry.title), d \in DelimiterClasses[k] :
              /\ SplitAt(entry, out, i, d)
              /\ \A j \in 1..(i - 1), e \in DelimiterClasses[k] : ~MatchAt(entry.title, e, j)

\* C6: complete_entry and TracklistEntry.complete leave an entry with an artist, or
\* with no delimiter in its title, unchanged; otherwise they split the title once at
\* the first occurrence of the highest-priority delimiter present into the trimmed
\* artist and the trimmed title; start_seconds is never changed.
C6_ArtistInference ==
    /\ ce_fn_out # <<>> => InferenceHolds(ce_entry, ce_fn_out[1])
    /\ ce_method_out # <<>> => InferenceHolds(ce_entry, ce_method_out[1])

\* A colon comes before a dash in the title of an entry without artist, and both
\* inferences have run: the dash decides.
C6_Witness ==
    /\ ce_fn_out # <<>> /\ ce_method_out # <<>>
    /\ ce_entry.artist = <<>>
    /\ Contains(ce_entry.title, <<":">>) /\ Contains(ce_entry.title, <<"-">>)
    /\ Find(ce_entry.title, <<":">>) < Find(ce_entry.title, <<"-">>)
    /\ ce_fn_out[1].artist # <<>>

(***************************************************************************)
(* Specification of the trim transform                                     *)
(***************************************************************************)
MaxTrimTracks == 3
MaxTrimSeconds == 3

TrimEntries ==
    {TracklistEntry(a, <<"t">>, s) : a \in {<<>>, <<"a">>}, s \in 0..MaxTrimSeconds}

TrInit ==
    /\ tr_tracklist \in UNION {[1..n -> TrimEntries] : n \in 0..MaxTrimTracks}
    /\ tr_duration \in 0..(MaxTrimSeconds + 1)
    /\ tr_out = <<>>
    /\ TabIdle /\ CeIdle /\ CueIdle /\ OaIdle /\ RunIdle

\* a call of transform.trim_tracklist; the new tracklist is a new value
TrimTracklist ==
    /\ tr_out = <<>>
    /\ tr_out' = <<trim_tracklist(tr_tracklist, tr_duration)>>
    /\ UNCHANGED <<tr_tracklist, tr_duration, tabVars, ceVars, cueVars, oaVars, runVars>>

TrNext == TrimTracklist

SpecTrim == TrInit /\ [][TrNext]_vars

\* The positions of the input whose entry starts before the cutoff.
KeptPositions == {i \in 1..Len(tr_tracklist) : tr_tracklist[i].start_seconds < tr_duration}

\* The k-th kept position, in input order.
KthKept(k) ==
    CHOOSE i \in KeptPositions : Cardinality({j \in KeptPositions : j <= i}) = k

\* C7: trim_tracklist returns exactly the input entries with start_seconds < d, in
\* their order and unmodified; trimming to 0 yields the empty list.
C7_Trim ==
    tr_out # <<>> =>
        /\ Len(tr_out[1]) = Cardinality(KeptPositions)
        /\ \A k \in 1..Len(tr_out[1]) : tr_out[1][k] = tr_tracklist[KthKept(k)]
        /\ tr_duration = 0 => tr_out[1] = <<>>

\* A trim that keeps some entries and drops an entry that starts exactly at the cutoff.
C7_Witness ==
    /\ tr_out # <<>>
    /\ tr_out[1] # <<>>
    /\ \E i \in 1..Len(tr_tracklist) : tr_tracklist[i].start_seconds = tr_duration
    /\ Len(tr_out[1]) < Len(tr_tracklist)

(***************************************************************************)
(* Specification of the cue-sheet parser                                   *)
(***************************************************************************)
MaxCueLines == 4

LINE_TRACK == KW_TRACK \o <<" ", "0", "1">>
LINE_TITLE_QUOTED == <<" ", " ">> \o KW_TITLE \o <<" ", "\"", "a", "-", "b", "\"">>
LINE_TITLE_PLAIN == KW_TITLE \o <<" ", "b">>
LINE_PERFORMER == KW_PERFORMER \o <<" ", "\"", "c", "\"">>
LINE_INDEX == <<" ">> \o KW_INDEX \o <<" ", "0", "1", " ", "0", "3", ":", "4", "5", ":", "0", "9">>
LINE_INDEX_SHORT == KW_INDEX \o <<" ", "0", "0", ":", "0", "7">>
LINE_OTHER == KW_TRACK \o <<"S", " ", "2">>
LINE_INDEX_BAD == KW_INDEX \o <<" ", "0", "1", " ", "a", "b", ":", "c", "d">>
LINE_TITLE_BARE == KW_TITLE

CueLineSet ==
    {LINE_TRACK, LINE_TITLE_QUOTED, LINE_TITLE_PLAIN, LINE_PERFORMER, LINE_INDEX,
     LINE_INDEX_SHORT, LINE_OTHER, LINE_INDEX_BAD, LINE_TITLE_BARE}

CueInit ==
    /\ cue_pc = "scan"
    /\ cue_lines \in UNION {[1..n -> CueLineSet] : n \in 0..MaxCueLines}
    /\ cue_i = 1
    /\ cue_entry = <<>>
    /\ cue_out = <<>>
    /\ TabIdle /\ CeIdle /\ TrIdle /\ OaIdle /\ RunIdle

\* One turn of the loop over the lines; cue_entry is <<>> for None.
CueLine ==
    /\ cue_pc = "scan"
    /\ cue_i <= Len(cue_lines)
    /\ LET line == cue_lines[cue_i]
           split == cue_split(line)
       IN  IF split[1] = KW_TRACK
           THEN /\ cue_out' = IF cue_entry # <<>>
                              THEN Append(cue_out, complete(cue_entry[1]))
                              ELSE cue_out
                /\ cue_entry' = <<TracklistEntry(<<>>, <<>>, 0)>>
                /\ cue_pc' = "scan"
           ELSE IF cue_entry # <<>>
           THEN IF cue_line_raises(line)
                THEN cue_pc' = "error" /\ UNCHANGED <<cue_entry, cue_out>>
                ELSE /\ cue_entry' = <<cue_update(cue_entry[1], line)>>
                     /\ UNCHANGED <<cue_pc, cue_out>>
           ELSE UNCHANGED <<cue_pc, cue_entry, cue_out>>
    /\ cue_i' = cue_i + 1
    /\ UNCHANGED <<cue_lines, tabVars, ceVars, trVars, oaVars, runVars>>

\* After the loop: the last entry is completed and emitted.
CueEnd ==
    /\ cue_pc = "scan"
    /\ cue_i > Len(cue_lines)
    /\ cue_out' = IF cue_entry # <<>> THEN Append(cue_out, complete(cue_entry[1])) ELSE cue_out
    /\ cue_pc' = "done"
    /\ UNCHANGED <<cue_lines, cue_i, cue_entry, tabVars, ceVars, trVars, oaVars, runVars>>

CueNext == CueLine \/ CueEnd

SpecCue == CueInit /\ [][CueNext]_vars

\* The first space-delimited token of a line, and the rest of the line.
Keyword(line) == cue_split(line)[1]
Argument(line) == cue_split(line)[2]

TrackPositions == {i \in 1..Len(cue_lines) : Keyword(cue_lines[i]) = KW_TRACK}

KthTrack(k) ==
    CHOOSE i \in TrackPositions : Cardinality({j \in TrackPositions : j <= i}) = k

\* The lines between the TRACK line at i and the next TRACK line.
Block(i) ==
    {j \in (i + 1)..Len(cue_lines) : \A t \in TrackPositions : t <= i \/ t > j}

\* The last line of the block with the keyword, 0 when there is none.
LastOf(i, kw) ==
    LET hits == {j \in Block(i) : Keyword(cue_lines[j]) = kw}
    IN  IF hits = {} THEN 0 ELSE CHOOSE j \in hits : \A h \in hits : h <= j

Unquoted(j) == parse_quoted(Argument(cue_lines[j]))

\* minutes*60 + seconds of the last field of the line, frames ignored
TimeOf(j) ==
    LET segs == Split(last_field(Argument(cue_lines[j])), <<":">>)
    IN  ParseInt(segs[1]) * 60 + ParseInt(segs[2])

\* The fields the lines of the block give the entry of the TRACK line at i.
BlockEntry(i) ==
    TracklistEntry(
        IF LastOf(i, KW_PERFORMER) = 0 THEN <<>> ELSE Unquoted(LastOf(i, KW_PERFORMER)),
        IF LastOf(i, KW_TITLE) = 0 THEN <<>> ELSE Unquoted(LastOf(i, KW_TITLE)),
        IF LastOf(i, KW_INDEX) = 0 THEN 0 ELSE TimeOf(LastOf(i, KW_INDEX)))

\* One entry per TRACK line, in order, each with the fields of its block (the artist
\* inferred from the title where the block names none).
EmitsTrackEntries ==
    /\ Len(cue_out) = Cardinality(TrackPositions)
    /\ \A k \in 1..Len(cue_out) : cue_out[k] = complete_entry(BlockEntry(KthTrack(k)))

\* No TITLE, PERFORMER or INDEX line lacks its argument.
NoBareLine ==
    \A j \in 1..Len(cue_lines) :
        Keyword(cue_lines[j]) \in {KW_TITLE, KW_PERFORMER, KW_INDEX}
            => Len(cue_split(cue_lines[j])) >= 2

\* C5 as stated: for every sequence of lines (here even only those whose keyword
\* lines all have an argument) the parser ends with one entry per TRACK line, with
\* the fields of the lines of its block.
C5_AsClaimed == (cue_pc \in {"done", "error"} /\ NoBareLine) => EmitsTrackEntries

\* C5, amended: for every sequence of lines the parser accepts, it emits one entry per
\* TRACK line, in order, with the fields of the TITLE, PERFORMER and INDEX lines of its
\* block; lines before the first TRACK line are ignored; no TRACK line, no entry.  It
\* raises exactly on a malformed line inside a track.
C5_CueSheet ==
    /\ cue_pc = "done" => EmitsTrackEntries
    /\ cue_pc = "done" =>
         \A j \in 1..Len(cue_lines) :
            cue_line_raises(cue_lines[j]) => \A t \in TrackPositions : t > j
    /\ cue_pc = "error" =>
         /\ cue_line_raises(cue_lines[cue_i - 1])
         /\ \E t \in TrackPositions : t < cue_i - 1

\* A parse that ends with two entries, after metadata lines before the first TRACK.
C5_Witness ==
    /\ cue_pc = "done"
    /\ Len(cue_out) = 2
    /\ Len(cue_lines) >= 1 /\ Keyword(cue_lines[1]) \in {KW_TITLE, KW_INDEX}
    /\ \E k \in 1..2 : cue_out[k].start_seconds # 0

(***************************************************************************)
(* Specification of the local OAuth capture                                *)
(***************************************************************************)
MaxRequests == 3
MaxParams == 1

Codes == {"A", "B"}
Params == [key : {"code", "state"}, value : {""} \cup Codes]
Queries == UNION {[1..n -> Params] : n \in 0..MaxParams}
Requests == [path : {callback_endpoint, "/"}, query : Queries]

TokenBodies ==
    {"{\"access_token\": \"T1\"}", "{\"access_token\": \"\", \"scope\": \"x\"}",
     "{\"error\": \"denied\"}", "{}", "<html>"}

OaInit ==
    /\ oa_pc = "bind"
    /\ oauth_code = <<>>
    /\ shutdown_request = FALSE
    /\ is_shut_down = FALSE
    /\ browser = "none"
    /\ sleepers = 0
    /\ waiters = 0
    /\ handled = 0
    /\ last_request = <<>>
    /\ last_status = 0
    /\ last_sent = 0
    /\ code_log = <<>>
    /\ code_sent = <<>>
    /\ stops_scheduled = 0
    /\ token_requests = <<>>
    /\ token_response = <<>>
    /\ oa_result = <<>>
    /\ TabIdle /\ CeIdle /\ TrIdle /\ CueIdle /\ RunIdle

notOa == <<tabVars, ceVars, trVars, cueVars, runVars>>

\* HTTPServer(('127.0.0.1', 0), RequestHandler): the socket is bound and listens.
Bind ==
    /\ oa_pc = "bind"
    /\ oa_pc' = "spawn"
    /\ UNCHANGED <<oauth_code, shutdown_request, is_shut_down, browser, sleepers, waiters,
                   handled, last_request, last_status, last_sent, code_log, code_sent,
                   stops_scheduled,
                   token_requests, token_response, oa_result, notOa>>

\* Thread(target=launch_browser).start(), then the caller enters serve_forever.
StartBrowserThread ==
    /\ oa_pc = "spawn"
    /\ browser' = "sleeping"
    /\ oa_pc' = "serve"
    /\ UNCHANGED <<oauth_code, shutdown_request, is_shut_down, sleepers, waiters,
                   handled, last_request, last_status, last_sent, code_log, code_sent,
                   stops_scheduled,
                   token_requests, token_response, oa_result, notOa>>

\* launch_browser: after the sleep, webbrowser.open.
LaunchBrowser ==
    /\ browser = "sleeping"
    /\ browser' = "opened"
    /\ UNCHANGED <<oa_pc, oauth_code, shutdown_request, is_shut_down, sleepers, waiters,
                   handled, last_request, last_status, last_sent, code_log, code_sent,
                   stops_scheduled,
                   token_requests, token_response, oa_result, notOa>>

\* One turn of serve_forever that finds a request: do_GET handles it.
HandleRequest ==
    /\ oa_pc = "serve"
    /\ ~shutdown_request
    /\ handled < MaxRequests
    /\ \E req \in Requests :
        /\ last_request' = <<req>>
        /\ last_status' = do_GET_status(req)
        /\ last_sent' = response_sent(do_GET_status(req), do_GET_ends_headers)
        /\ IF do_GET_records(req)
           THEN /\ oauth_code' = <<qs_values(req.query, "code")[1]>>
                /\ code_log' = Append(code_log, qs_values(req.query, "code")[1])
                /\ code_sent' = Append(code_sent,
                                        response_sent(do_GET_status(req), do_GET_ends_headers))
                /\ sleepers' = sleepers + 1
                /\ stops_scheduled' = stops_scheduled + 1
           ELSE UNCHANGED <<oauth_code, code_log, code_sent, sleepers, stops_scheduled>>
    /\ handled' = handled + 1
    /\ UNCHANGED <<oa_pc, shutdown_request, is_shut_down, browser, waiters,
                   token_requests, token_response, oa_result, notOa>>

\* shutdown_soon: after the sleep, server.shutdown() sets the flag and waits.
ShutdownSoon ==
    /\ sleepers > 0
    /\ sleepers' = sleepers - 1
    /\ waiters' = waiters + 1
    /\ shutdown_request' = TRUE
    /\ UNCHANGED <<oa_pc, oauth_code, is_shut_down, browser, handled, last_request,
                   last_status, last_sent, code_log, code_sent,
                   stops_scheduled, token_requests,
                   token_response, oa_result, notOa>>

\* server.shutdown() returns once serve_forever has returned.
ShutdownReturn ==
    /\ waiters > 0
    /\ is_shut_down
    /\ waiters' = waiters - 1
    /\ UNCHANGED <<oa_pc, oauth_code, shutdown_request, is_shut_down, browser, sleepers,
                   handled, last_request, last_status, last_sent, code_log, code_sent,
                   stops_scheduled,
                   token_requests, token_response, oa_result, notOa>>

\* A serve_forever that gives up waiting: it returns whether or not shutdown() was called.
ServeForeverReturn_timeout ==
    /\ oa_pc = "serve"
    /\ shutdown_request' = FALSE
    /\ is_shut_down' = TRUE
    /\ oa_pc' = "check"
    /\ UNCHANGED <<oauth_code, browser, sleepers, waiters, handled, last_request,
                   last_status, last_sent, code_log, code_sent, stops_scheduled,
                   token_requests, token_response, oa_result, notOa>>

\* serve_forever sees the flag and returns.
ServeForeverReturn ==
    /\ oa_pc = "serve"
    /\ shutdown_request
    /\ shutdown_request' = FALSE
    /\ is_shut_down' = TRUE
    /\ oa_pc' = "check"
    /\ UNCHANGED <<oauth_code, browser, sleepers, waiters, handled, last_request,
                   last_status, last_sent, code_log, code_sent,
                   stops_scheduled, token_requests,
                   token_response, oa_result, notOa>>

\* if not oauth_code: raise; else requests.get(access_token_url)
CheckCode ==
    /\ oa_pc = "check"
    /\ IF oauth_code = <<>>
       THEN /\ oa_result' = <<[kind |-> "RuntimeError", value |-> "No OAuth code received!"]>>
            /\ oa_pc' = "failed"
            /\ UNCHANGED token_requests
       ELSE /\ token_requests' = Append(token_requests, oauth_code[1])
            /\ oa_pc' = "exchange"
            /\ UNCHANGED oa_result
    /\ UNCHANGED <<oauth_code, shutdown_request, is_shut_down, browser, sleepers, waiters,
                   handled, last_request, last_status, last_sent, code_log, code_sent,
                   stops_scheduled,
                   token_response, notOa>>

\* The token response arrives: response.json(), then return or raise.
TokenResponse ==
    /\ oa_pc = "exchange"
    /\ \E body \in TokenBodies :
        /\ token_response' = <<body>>
        /\ oa_result' = <<token_outcome(body)>>
        /\ oa_pc' = IF token_outcome(body).kind = "return" THEN "returned" ELSE "failed"
    /\ UNCHANGED <<oauth_code, shutdown_request, is_shut_down, browser, sleepers, waiters,
                   handled, last_request, last_status, last_sent, code_log, code_sent,
                   stops_scheduled,
                   token_requests, notOa>>

\* requests.get raises: no response.
TokenRequestFails ==
    /\ oa_pc = "exchange"
    /\ oa_result' = <<[kind |-> "ConnectionError", value |-> ""]>>
    /\ oa_pc' = "failed"
    /\ UNCHANGED <<oauth_code, shutdown_request, is_shut_down, browser, sleepers, waiters,
                   handled, last_request, last_status, last_sent, code_log, code_sent,
                   stops_scheduled,
                   token_requests, token_response, notOa>>

OaNext ==
    \/ Bind \/ StartBrowserThread \/ LaunchBrowser \/ HandleRequest \/ ShutdownSoon
    \/ ShutdownReturn \/ ServeForeverReturn \/ CheckCode \/ TokenResponse
    \/ TokenRequestFails

SpecOAuth == OaInit /\ [][OaNext]_vars

\* C2: once a request with a code has been handled, no later request changes the
\* recorded code, and the token request carries the first code received.
C2_SingleUse ==
    /\ oauth_code # <<>> => oauth_code[1] = code_log[1]
    /\ token_requests # <<>> => token_requests[1] = code_log[1]

\* The request carries a parameter named code, whatever its value.
CarriesCodeParam(req) == \E i \in 1..Len(req.query) : req.query[i].key = "code"

\* The request carries a parameter named code with a value that is not blank.
CarriesCodeValue(req) ==
    \E i \in 1..Len(req.query) : req.query[i].key = "code" /\ req.query[i].value # ""

\* The step handles a request.
HandlesRequest == handled' = handled + 1

\* The step records a code and schedules a stop of the listener.
RecordsAndSchedules ==
    /\ oauth_code' # <<>>
    /\ code_log' # code_log
    /\ stops_scheduled' = stops_scheduled + 1
    /\ sleepers' = sleepers + 1

\* The step leaves the recorded code alone and the listener running.
LeavesListenerAlone ==
    /\ UNCHANGED <<oauth_code, code_log, stops_scheduled, sleepers, shutdown_request>>
    /\ oa_pc' = "serve"

\* The response the client gets has status 200 for the callback path, 404 otherwise.
StatusByPath ==
    /\ last_sent' \in {200, 404}
    /\ last_sent' = 200 <=> last_request'[1].path = callback_endpoint

\* C3: for every request handled, the response status is 200 exactly for the callback
\* path and 404 otherwise; a code is recorded and a stop of the listener scheduled
\* exactly when the request is to the callback path and carries a code parameter;
\* every other request leaves the recorded code unchanged and the listener running.
C3_Listener ==
    [][HandlesRequest =>
        /\ StatusByPath
        /\ IF last_request'[1].path = callback_endpoint /\ CarriesCodeParam(last_request'[1])
           THEN RecordsAndSchedules ELSE LeavesListenerAlone]_vars

\* What holds of the handler's choices: it passes 200 to send_response exactly for
\* the callback path and 404 otherwise, and it records a code and schedules a stop
\* exactly for a callback request with a code parameter whose value is not blank.
HandlerChoices ==
    [][HandlesRequest =>
        /\ last_status' \in {200, 404}
        /\ last_status' = 200 <=> last_request'[1].path = callback_endpoint
        /\ IF last_request'[1].path = callback_endpoint /\ CarriesCodeValue(last_request'[1])
           THEN RecordsAndSchedules /\ oauth_code'[1] \in Codes
           ELSE LeavesListenerAlone]_vars

Stopped == oa_pc \in {"check", "exchange", "returned", "failed"}
PastCheck == oa_pc \in {"exchange", "returned", "failed"}

\* C4: after the listener has stopped, the flow fails without a token request when no
\* code is recorded; otherwise it sends one token request with the recorded code,
\* returns the access token when the parsed response has one and else fails with the
\* raw response body; it never returns a token without a recorded code.
C4_TokenExchange ==
    /\ Len(token_requests) <= 1
    /\ ~Stopped => token_requests = <<>> /\ oa_result = <<>>
    /\ (PastCheck /\ oauth_code = <<>>) =>
          /\ oa_pc = "failed" /\ token_requests = <<>>
          /\ oa_result[1].kind = "RuntimeError"
    /\ (PastCheck /\ oauth_code # <<>>) => token_requests = <<oauth_code[1]>>
    /\ token_response # <<>> =>
          LET fields == json(token_response[1])
          IN  /\ (fields.ok /\ "access_token" \in fields.keys) =>
                    /\ oa_pc = "returned"
                    /\ oa_result = <<[kind |-> "return", value |-> fields.access_token]>>
              /\ (fields.ok /\ "access_token" \notin fields.keys) =>
                    /\ oa_pc = "failed"
                    /\ oa_result = <<[kind |-> "RuntimeError", value |-> token_response[1]]>>
              /\ ~fields.ok => oa_pc = "failed"
    /\ oa_pc = "returned" =>
          /\ oauth_code # <<>> /\ token_requests # <<>> /\ token_response # <<>>
          /\ oa_result[1].kind = "return"

\* The flow failed with the body of a token response that parsed and had no token,
\* after a token request with the recorded code.
C4_Witness ==
    /\ oa_pc = "failed"
    /\ token_response = <<"{\"error\": \"denied\"}">>
    /\ oa_result[1].value = "{\"error\": \"denied\"}"
    /\ token_requests = <<oauth_code[1]>>

\* The flow is over: authenticate_via_browser has returned or raised.
Completed == oa_pc \in {"returned", "failed"}

\* C12: the listener stops only after a callback request with a code has been
\* recorded; the recorded code is read and the token request issued only after the
\* listener has stopped; and while no request with a code has arrived the flow
\* neither leaves serve_forever nor completes.
C12_FlowOrdering ==
    /\ (is_shut_down \/ Stopped) => (code_log # <<>> /\ oauth_code # <<>>)
    /\ (PastCheck \/ token_requests # <<>> \/ token_response # <<>>) => is_shut_down
    /\ code_log = <<>> => (oa_pc \in {"bind", "spawn", "serve"} /\ oa_result = <<>>)
    /\ Completed => (is_shut_down /\ code_log # <<>>)

\* The flow has completed with a token after a code was recorded and the listener stopped.
C12_Witness ==
    /\ oa_pc = "returned"
    /\ is_shut_down
    /\ code_log # <<>>
    /\ token_requests = <<oauth_code[1]>>
    /\ oa_result[1].kind = "return"

(***************************************************************************)
(* Specification of the listener's threads: do_GET in two steps, so that   *)
(* the shutdown_soon thread may run between them, and fair scheduling      *)
(***************************************************************************)
\* do_GET up to Thread(target=shutdown_soon).start(): the request is parsed, a code
\* is recorded and the stop scheduled.  Nothing is passed to send_response yet.
DoGetRecord ==
    /\ oa_pc = "serve"
    /\ ~shutdown_request
    /\ handled < MaxRequests
    /\ \E req \in Requests :
        /\ last_request' = <<req>>
        /\ IF do_GET_records(req)
           THEN /\ oauth_code' = <<qs_values(req.query, "code")[1]>>
                /\ code_log' = Append(code_log, qs_values(req.query, "code")[1])
                /\ sleepers' = sleepers + 1
                /\ stops_scheduled' = stops_scheduled + 1
           ELSE UNCHANGED <<oauth_code, code_log, sleepers, stops_scheduled>>
    /\ last_status' = 0
    /\ last_sent' = 0
    /\ oa_pc' = "do_GET"
    /\ UNCHANGED <<shutdown_request, is_shut_down, browser, waiters, handled, code_sent,
                   token_requests, token_response, oa_result, notOa>>

\* do_GET's send_response and its return to the loop of serve_forever.
DoGetRespond ==
    /\ oa_pc = "do_GET"
    /\ last_status' = do_GET_status(last_request[1])
    /\ last_sent' = response_sent(do_GET_status(last_request[1]), do_GET_ends_headers)
    /\ code_sent' = IF do_GET_records(last_request[1])
                    THEN Append(code_sent, response_sent(do_GET_status(last_request[1]),
                                                         do_GET_ends_headers))
                    ELSE code_sent
    /\ handled' = handled + 1
    /\ oa_pc' = "serve"
    /\ UNCHANGED <<oauth_code, shutdown_request, is_shut_down, browser, sleepers, waiters,
                   last_request, code_log, stops_scheduled, token_requests,
                   token_response, oa_result, notOa>>

ShNext ==
    \/ Bind \/ StartBrowserThread \/ LaunchBrowser \/ DoGetRecord \/ DoGetRespond
    \/ ShutdownSoon \/ ShutdownReturn \/ ServeForeverReturn \/ CheckCode
    \/ TokenResponse \/ TokenRequestFails

\* Every started thread runs on: the handler returns, the sleep of shutdown_soon
\* ends, serve_forever polls its flag, and shutdown() wakes once the event is set.
\* No request is bound to arrive.
ShFairness ==
    /\ WF_vars(DoGetRespond)
    /\ WF_vars(ShutdownSoon)
    /\ WF_vars(ServeForeverReturn)
    /\ WF_vars(ShutdownReturn)

SpecShutdown == OaInit /\ [][ShNext]_vars /\ ShFairness

\* Once serve_forever has returned, every request with a code got its 200 response.
ResponseBeforeStop ==
    is_shut_down =>
        /\ Len(code_sent) = Len(code_log)
        /\ \A i \in 1..Len(code_sent) : code_sent[i] = 200

\* Once serve_forever has returned, the handler of every request with a code has
\* run to its end.
HandlerBeforeStop == is_shut_down => Len(code_sent) = Len(code_log)

\* Every call of server.shutdown() returns, and the handler always returns.
ShutdownCompletes ==
    /\ (waiters > 0) ~> (waiters = 0)
    /\ (oa_pc = "do_GET") ~> (oa_pc = "serve")

\* Once a request with a code has been handled, serve_forever returns.
ServeForeverReturns == (code_log # <<>>) ~> is_shut_down

\* C11: for the callback request that carries a code, under every interleaving of the
\* handler and the shutdown_soon thread, the 200 response is sent before the listener
\* stops, the shutdown call does not deadlock with the handler, and serve_forever
\* eventually returns once such a request has been handled.
C11_ShutdownAfterResponse ==
    /\ []ResponseBeforeStop
    /\ ShutdownCompletes
    /\ ServeForeverReturns

\* What holds of the threads: the handler of a request with a code has returned
\* before the listener stops, no shutdown call waits for ever, and serve_forever
\* returns once a code has been recorded.
StopsAfterHandler ==
    /\ []HandlerBeforeStop
    /\ ShutdownCompletes
    /\ ServeForeverReturns

(***************************************************************************)
(* Specification of a run                                                  *)
(***************************************************************************)
MaxRunTracks == 2

RunEntries ==
    {TracklistEntry(<<>>, <<"t">>, 0), TracklistEntry(<<"a">>, <<"t">>, 125),
     TracklistEntry(<<>>, <<"a", "-", "t">>, 125), TracklistEntry(<<"a">>, <<>>, 0)}

RunTracklists == UNION {[1..n -> RunEntries] : n \in 0..MaxRunTracks}

\* --trim-duration: absent, 0 or a cutoff
TrimDurations == {<<>>, <<0>>, <<100>>}

RunTags == {<<>>, << <<"t", "1">>, <<"t", "2">> >>}

\* What the user may type at the prompt.
Responses == {<<>>, <<"y">>, <<"Y">>, <<" ", "y">>, <<"n">>, <<"y", "e", "s">>, <<" ">>}

MixName == <<"m">>

RunInit ==
    /\ run_pc = "transcode"
    /\ run_opts \in [noninteractive : BOOLEAN, trim_duration : TrimDurations,
                     tags : RunTags, description : {<<>>, << <<"d">> >>}]
    /\ output_exists \in BOOLEAN
    /\ tracklist_sized \in BOOLEAN
    /\ run_tracks = <<>>
    /\ run_steps = <<>>
    /\ run_response = <<>>
    /\ run_uploads = <<>>
    /\ TabIdle /\ CeIdle /\ TrIdle /\ CueIdle /\ OaIdle

notRun == <<tabVars, ceVars, trVars, cueVars, oaVars>>

\* Transcode the audio unless the output is cached; the encoder may fail.
RunTranscode ==
    /\ run_pc = "transcode"
    /\ IF output_exists
       THEN /\ run_pc' = "parse"
            /\ run_steps' = Append(run_steps, "cached")
            /\ UNCHANGED output_exists
       ELSE \E ok \in BOOLEAN :
            /\ output_exists' = ok
            /\ run_pc' = IF ok THEN "parse" ELSE "failed"
            /\ run_steps' = Append(run_steps, "transcode")
    /\ UNCHANGED <<run_opts, tracklist_sized, run_tracks, run_response, run_uploads, notRun>>

\* CuesheetFormat().parse of the tracklist file
RunParse ==
    /\ run_pc = "parse"
    /\ run_tracks' \in RunTracklists
    /\ run_pc' = "complete"
    /\ run_steps' = Append(run_steps, "parse")
    /\ UNCHANGED <<run_opts, output_exists, tracklist_sized, run_response, run_uploads, notRun>>

\* tracks = complete_tracklist(tracks)
RunComplete ==
    /\ run_pc = "complete"
    /\ run_tracks' = complete_tracklist(run_tracks)
    /\ run_pc' = "trim"
    /\ run_steps' = Append(run_steps, "complete")
    /\ UNCHANGED <<run_opts, output_exists, tracklist_sized, run_response, run_uploads, notRun>>

\* if opts.trim_duration: tracks = trim_tracklist(tracks, opts.trim_duration)
RunTrim ==
    /\ run_pc = "trim"
    /\ run_tracks' = IF run_opts.trim_duration # <<>> /\ run_opts.trim_duration[1] # 0
                     THEN trim_tracklist(run_tracks, run_opts.trim_duration[1])
                     ELSE run_tracks
    /\ run_pc' = "edit"
    /\ run_steps' = Append(run_steps, "trim")
    /\ UNCHANGED <<run_opts, output_exists, tracklist_sized, run_response, run_uploads, notRun>>

\* The editor session unless noninteractive: the user leaves any tracklist.
RunEdit ==
    /\ run_pc = "edit"
    /\ IF run_opts.noninteractive
       THEN run_pc' = "confirm" /\ UNCHANGED run_tracks
       ELSE \E new_tracks \in RunTracklists :
            IF Truthy(run_tracks, tracklist_sized) /\ ~Truthy(new_tracks, tracklist_sized)
            THEN run_pc' = "exit" /\ UNCHANGED run_tracks
            ELSE run_pc' = "confirm" /\ run_tracks' = new_tracks
    /\ run_steps' = Append(run_steps, "edit")
    /\ UNCHANGED <<run_opts, output_exists, tracklist_sized, run_response, run_uploads, notRun>>

\* confirm('Upload this mix?')
RunConfirm ==
    /\ run_pc = "confirm"
    /\ \E input \in Responses :
        /\ run_response' = <<input>>
        /\ run_pc' = IF confirm(input) THEN "upload" ELSE "exit"
    /\ run_steps' = Append(run_steps, "confirm")
    /\ UNCHANGED <<run_opts, output_exists, tracklist_sized, run_tracks, run_uploads, notRun>>

\* opts.mixcloud.upload(...): the request is sent; raise_for_status may raise.
RunUpload ==
    /\ run_pc = "upload"
    /\ run_uploads' = Append(run_uploads,
          [tracks |-> run_tracks, tags |-> run_opts.tags,
           data |-> upload_data(MixName, run_opts.description, run_opts.tags, run_tracks)])
    /\ \E ok \in BOOLEAN : run_pc' = IF ok THEN "done" ELSE "failed"
    /\ run_steps' = Append(run_steps, "upload")
    /\ UNCHANGED <<run_opts, output_exists, tracklist_sized, run_tracks, run_response, notRun>>

RunNext ==
    \/ RunTranscode \/ RunParse \/ RunComplete \/ RunTrim \/ RunEdit \/ RunConfirm
    \/ RunUpload

SpecRun == RunInit /\ [][RunNext]_vars

\* C8: in an interactive run, when the tracklist had entries before the edit and the
\* edited text parses to none, the run stops before the confirmation and the upload,
\* and the transcoded file stays.  (It holds where tracklist_sized is true and fails
\* where it is false.)
C8_EmptyEditGuard ==
    [][(run_pc = "edit" /\ ~run_opts.noninteractive /\ run_tracks # <<>>
        /\ run_pc' = "confirm") => run_tracks' # <<>>]_vars

\* C9: the upload call is made at most once, after the transcode, parse, inference,
\* trim and edit steps, and only after an explicit confirmation at the prompt; an
\* empty answer is no confirmation.
C9_UploadAfterConfirmation ==
    /\ Len(run_uploads) <= 1
    /\ run_uploads # <<>> =>
          /\ SubSeq(run_steps, 2, 6) = <<"parse", "complete", "trim", "edit", "confirm">>
          /\ run_response # <<>>
          /\ Lower(Strip(run_response[1])) = <<"y">>

HasField(data, field, index, attr, text) ==
    [key |-> FieldKey(field, index, attr), text |-> text] \in data

\* C10: the request data of an upload holds, for each entry at index i, the three
\* fields sections-i-artist, sections-i-song and sections-i-start_time with the
\* entry's values, and for each tag at index i the field tags-i-tag.
C10_UploadFields ==
    \A u \in 1..Len(run_uploads) :
        LET call == run_uploads[u]
        IN  /\ \A i \in 1..Len(call.tracks) :
                 /\ HasField(call.data, "sections", i - 1, "artist", call.tracks[i].artist)
                 /\ HasField(call.data, "sections", i - 1, "song", call.tracks[i].title)
                 /\ HasField(call.data, "sections", i - 1, "start_time",
                             Str(call.tracks[i].start_seconds))
            /\ \A i \in 1..Len(call.tags) :
                 HasField(call.data, "tags", i - 1, "tag", call.tags[i])
====
